---- MODULE Spec2Model ----
(***************************************************************************)
(* fluentd-reloader: one run of the scheduled job.  main() builds the      *)
(* cluster client, reads the configuration from the environment, lists the *)
(* fluentd pods, probes the served TLS certificate, looks the cert-manager *)
(* Certificate up by name, compares the two expiries and, when they        *)
(* differ, sends one graceful-reload GET per discovered pod IP.            *)
(*                                                                         *)
(* Spec           the whole run (main)                                     *)
(* FairSpec       the run, every blocking call eventually returning        *)
(* SpecDiscovery  app.getFluentdIPs applied to every bounded pod list      *)
(* SpecLookup     app.getCRD applied to every bounded certificate list     *)
(***************************************************************************)
EXTENDS Integers, Sequences, FiniteSets, TLC

\* ------------------------------------------------------------------ bounds
MaxPods == 3
MaxCerts == 2
MaxTime == 2

\* ------------------------------------------------------------ value domains
\* An optional value (a nil-able pointer, an environment variable that may be
\* absent, a result not yet produced) is <<>> or <<v>>.
Nil == <<>>
Ptr(v) == <<v>>
Deref(p) == p[1]

NoErr == "nil"

StsLabel == "statefulset.kubernetes.io/pod-name"
AppLabel == "app"

EnvVars == {"FLUENTD_SERVICE_URL", "FLUENTD_CERT_NAME", "FLUENTD_NAMESPACE"}

\* Strings whose letters matter (certificate names) are sequences of characters.
Chars == {"a", "A", "b"}
Names == UNION {[1..n -> Chars] : n \in {1, 2}}
EnvCertNames == {<<"a", "b">>}
RunNames == {<<"a", "b">>, <<"A", "b">>, <<"b">>}
Envs == [FLUENTD_SERVICE_URL : {Nil, Ptr("logging.donchev.is")},
         FLUENTD_CERT_NAME : {Nil} \cup {Ptr(n) : n \in EnvCertNames},
         FLUENTD_NAMESPACE : {Nil, Ptr("logging")}]

\* A time.Time is an instant plus a location; x509 parses NotAfter as UTC,
\* metav1.Time unmarshals into the local zone.
Instants == 1..MaxTime
LiveTimes == [instant : Instants, loc : {"UTC"}]
RecordTimes == [instant : Instants, loc : {"Local"}]

PodIPs == {"10.0.0.1", "10.0.0.2", "10.0.0.9"}
PodNames == {"fluentd-0", "other-0"}
PodLabels == {{AppLabel}, {AppLabel, StsLabel}}
Pods == [name : PodNames, podIP : PodIPs, labels : PodLabels]
RunPods == [name : {"fluentd-0"}, podIP : {"10.0.0.1", "10.0.0.2"}, labels : PodLabels]
\* status.notAfter is a *metav1.Time: nil, or a wrapper around a time.Time.
NotAfters == {Ptr([Time |-> t]) : t \in RecordTimes} \cup {Nil}
Certs == [name : Names, notAfter : NotAfters]
RunCerts == [name : RunNames, notAfter : NotAfters]

SeqsUpTo(S, n) == UNION {[1..k -> S] : k \in 0..n}

\* Lower-casing of a name, letter by letter.
LowerChar(c) == IF c = "A" THEN "a" ELSE c
Lower(s) == [i \in 1..Len(s) |-> LowerChar(s[i])]

\* What the API server can answer to the pod listing and to the certificate
\* listing.  Object names are unique within a namespace, and no two names of
\* one listing differ by letter case only.
CertLists(C) == {l \in SeqsUpTo(C, MaxCerts) :
                   \A i, j \in 1..Len(l) : i # j => Lower(l[i].name) # Lower(l[j].name)}
ListCertsResults(C) == {[err |-> TRUE, items |-> <<>>]} \cup
                       {[err |-> FALSE, items |-> l] : l \in CertLists(C)}
ListPodsResults(P) == {[err |-> TRUE, items |-> <<>>]} \cup
                      {[err |-> FALSE, items |-> l] : l \in SeqsUpTo(P, MaxPods)}

Outcome(res) == IF res.err THEN "error" ELSE "ok"

\* What the TLS dial can produce.
ProbeResults == {[kind |-> "dialErr"], [kind |-> "hostnameErr"]} \cup
                {[kind |-> "ok", notAfter |-> t] : t \in LiveTimes}

\* What one reload GET can produce: a transport error, or a response whose
\* body either reads completely or fails while being read (the body of a
\* response with a status of 400 or more is never read).
ReadErr == "read error"
Statuses == {200, 399, 400, 503}
Bodies == {"ok", "error"}
Responses == {[kind |-> "doErr"]} \cup
             {[kind |-> "resp", status |-> st, body |-> b] :
                 st \in {x \in Statuses : x < 400}, b \in Bodies \cup {ReadErr}} \cup
             {[kind |-> "resp", status |-> st, body |-> "error"] :
                 st \in {x \in Statuses : x >= 400}}

ReloadPort == 24444
ZeroTime == [instant |-> 0, loc |-> "UTC"]

VARIABLES
    pc,            \* where main() is
    env,           \* the process environment: variable -> Ptr(value), or Nil when absent
    config,        \* what getConfig returned
    fluentdIPs,    \* main's fluentdIPs
    expiry,        \* main's expiry
    certificate,   \* main's certificate
    idx,           \* position of reloadFluentdConfig's range loop
    ops,           \* the external operations performed so far, in order, each
                   \* with what the outside world answered
    responses,     \* what each reload GET produced, in order
    log,           \* the log stream
    exitCode,      \* the process exit status once it has exited
    err,           \* the error that ended the run or the call
    reloadCalled,  \* main reached the call of reloadFluentdConfig
    pods,          \* SpecDiscovery: the pod listing given to getFluentdIPs
    certItems      \* SpecLookup: the certificate listing given to getCRD

vars == <<pc, env, config, fluentdIPs, expiry, certificate, idx, ops, responses,
          log, exitCode, err, reloadCalled, pods, certItems>>

\* ------------------------------------------------------------ pure functions

\* getConfig: the three look-ups in source order; the first absent one panics.
getConfig_NoCertName(e) ==
    IF e["FLUENTD_SERVICE_URL"] = Nil
    THEN [panic |-> "FLUENTD_SERVICE_URL is not set", config |-> Nil]
    ELSE IF e["FLUENTD_NAMESPACE"] = Nil
    THEN [panic |-> "FLUENTD_NAMESPACE is not set", config |-> Nil]
    ELSE [panic |-> NoErr,
          config |-> Ptr([serviceURL |-> Deref(e["FLUENTD_SERVICE_URL"]),
                          certName |-> IF e["FLUENTD_CERT_NAME"] = Nil THEN <<>>
                                       ELSE Deref(e["FLUENTD_CERT_NAME"]),
                          namespace |-> Deref(e["FLUENTD_NAMESPACE"])])]

getConfig(e) ==
    IF e["FLUENTD_SERVICE_URL"] = Nil
    THEN [panic |-> "FLUENTD_SERVICE_URL is not set", config |-> Nil]
    ELSE IF e["FLUENTD_CERT_NAME"] = Nil
    THEN [panic |-> "FLUENTD_CERT_NAME is not set", config |-> Nil]
    ELSE IF e["FLUENTD_NAMESPACE"] = Nil
    THEN [panic |-> "FLUENTD_NAMESPACE is not set", config |-> Nil]
    ELSE [panic |-> NoErr,
          config |-> Ptr([serviceURL |-> Deref(e["FLUENTD_SERVICE_URL"]),
                          certName |-> Deref(e["FLUENTD_CERT_NAME"]),
                          namespace |-> Deref(e["FLUENTD_NAMESPACE"])])]

\* The range loop of getFluentdIPs over pods.Items.
RECURSIVE podLoop_NoLabelCheck(_, _)
podLoop_NoLabelCheck(items, acc) ==
    IF items = <<>> THEN acc
    ELSE podLoop_NoLabelCheck(Tail(items),
                              [acc EXCEPT !.ips = Append(@, Head(items).podIP)])

RECURSIVE podLoop(_, _)
podLoop(items, acc) ==
    IF items = <<>> THEN acc
    ELSE LET pod == Head(items) IN
         IF StsLabel \notin pod.labels
         THEN podLoop(Tail(items),
                      [acc EXCEPT !.log = Append(@, <<"Pod is not from statefulset, skipping", pod.name>>)])
         ELSE podLoop(Tail(items), [acc EXCEPT !.ips = Append(@, pod.podIP)])

getFluentdIPs(res) ==
    IF res.err
    THEN [ips |-> <<>>, err |-> "failed to get fluentd pods", log |-> <<>>]
    ELSE podLoop(res.items, [ips |-> <<>>, err |-> NoErr, log |-> <<>>])

\* strings.EqualFold: equal length and each pair of letters equal under folding.
FoldChar(c) == IF c = "A" THEN "a" ELSE c

EqualFold_Exact(s, t) == s = t

EqualFold(s, t) ==
    /\ Len(s) = Len(t)
    /\ \A i \in 1..Len(s) : FoldChar(s[i]) = FoldChar(t[i])

\* The range loop of getCRD over certificates.Items.
RECURSIVE crdLoop(_, _, _)
crdLoop(items, certName, lg) ==
    IF items = <<>>
    THEN [cert |-> Nil, err |-> "failed to find fluentd certificate", log |-> lg]
    ELSE LET cert == Head(items) IN
         IF EqualFold(cert.name, certName)
         THEN [cert |-> Ptr(cert), err |-> NoErr, log |-> lg]
         ELSE crdLoop(Tail(items), certName,
                      Append(lg, <<"Certificate is not fluentd cerificate", cert.name>>))

getCRD(res, certName) ==
    IF res.err
    THEN [cert |-> Nil, err |-> "failed to get certificates", log |-> <<>>]
    ELSE crdLoop(res.items, certName, <<>>)

\* checkCert: dial, verify the hostname, read the leaf certificate's NotAfter.
checkCert(res) ==
    IF res.kind = "dialErr"
    THEN [expiry |-> ZeroTime, err |-> "Server doesn't support SSL certificate", log |-> <<>>]
    ELSE IF res.kind = "hostnameErr"
    THEN [expiry |-> ZeroTime, err |-> "Hostname doesn't match with certificate", log |-> <<>>]
    ELSE [expiry |-> res.notAfter, err |-> NoErr, log |-> << <<"Issuer, Expiry", res.notAfter>> >>]

\* metav1.NewTime wraps a time.Time; (*metav1.Time).Equal is nil-aware and
\* compares the wrapped instants (time.Time.Equal ignores the location).
NewTime(t) == [Time |-> t]
AddrOf(v) == Ptr(v)

TimeEqual(a, b) == a.instant = b.instant

MetaTimeEqual_StructEq(t, u) == t = u

MetaTimeEqual_NilMatches(t, u) ==
    IF t = Nil \/ u = Nil THEN TRUE ELSE TimeEqual(Deref(t).Time, Deref(u).Time)

MetaTimeEqual(t, u) ==
    IF t = Nil /\ u = Nil THEN TRUE
    ELSE IF t # Nil /\ u # Nil THEN TimeEqual(Deref(t).Time, Deref(u).Time)
    ELSE FALSE

\* One iteration of reloadFluentdConfig's loop, given what the GET produced.
\* http.NewRequest cannot fail here: the method is "GET" and the URL built from
\* a pod IP always parses.  The deferred resp.Body.Close() calls run when the
\* function returns and change nothing that is observed.
ReloadURL(ip) == [scheme |-> "http", host |-> ip, port |-> ReloadPort,
                  path |-> "/api/config.gracefulReload"]

reloadIteration_IgnoreStatus(ip, resp) ==
    LET start == << <<"Reloading fluentd config on", ip>> >> IN
    IF resp.kind = "doErr"
    THEN [err |-> "failed to send request", log |-> start]
    ELSE IF resp.body = ReadErr
    THEN [err |-> "failed to read response body", log |-> start]
    ELSE [err |-> NoErr, log |-> Append(start, <<"Response", resp.body>>)]

reloadIteration(ip, resp) ==
    LET start == << <<"Reloading fluentd config on", ip>> >> IN
    IF resp.kind = "doErr"
    THEN [err |-> "failed to send request", log |-> start]
    ELSE IF resp.status >= 400
    THEN [err |-> "failed to reload fluentd config", log |-> start]
    ELSE IF resp.body = ReadErr
    THEN [err |-> "failed to read response body", log |-> start]
    ELSE [err |-> NoErr, log |-> Append(start, <<"Response", resp.body>>)]

\* ------------------------------------------------------------------ the run

Init ==
    /\ pc = "InClusterConfig"
    /\ env \in Envs
    /\ config = Nil
    /\ fluentdIPs = <<>>
    /\ expiry = ZeroTime
    /\ certificate = Nil
    /\ idx = 0
    /\ ops = <<>>
    /\ responses = <<>>
    /\ log = <<>>
    /\ exitCode = Nil
    /\ err = NoErr
    /\ reloadCalled = FALSE
    /\ pods = Nil
    /\ certItems = Nil

\* panic(e): the process ends at once; the Go runtime exits with status 2.
Panic_ExitZero(e) ==
    /\ pc' = "Fatal"
    /\ err' = e
    /\ exitCode' = Ptr(0)

Panic(e) ==
    /\ pc' = "Fatal"
    /\ err' = e
    /\ exitCode' = Ptr(2)

\* rest.InClusterConfig()
InClusterConfig ==
    /\ pc = "InClusterConfig"
    /\ \E ok \in BOOLEAN :
          IF ok THEN pc' = "NewForConfig" /\ UNCHANGED <<err, exitCode>>
                ELSE Panic("unable to load in-cluster configuration")
    /\ UNCHANGED <<env, config, fluentdIPs, expiry, certificate, idx, ops, responses,
                   log, reloadCalled, pods, certItems>>

\* kubernetes.NewForConfig(cfg)
NewForConfig ==
    /\ pc = "NewForConfig"
    /\ \E ok \in BOOLEAN :
          IF ok THEN pc' = "getConfig" /\ UNCHANGED <<err, exitCode>>
                ELSE Panic("unable to create the clientset")
    /\ UNCHANGED <<env, config, fluentdIPs, expiry, certificate, idx, ops, responses,
                   log, reloadCalled, pods, certItems>>

\* config := getConfig(); app := app{...}
GetConfig ==
    /\ pc = "getConfig"
    /\ LET r == getConfig(env) IN
          IF r.panic # NoErr
          THEN Panic(r.panic) /\ UNCHANGED config
          ELSE pc' = "Discovering" /\ config' = r.config /\ UNCHANGED <<err, exitCode>>
    /\ UNCHANGED <<env, fluentdIPs, expiry, certificate, idx, ops, responses,
                   log, reloadCalled, pods, certItems>>

\* fluentdIPs, err := app.getFluentdIPs(); if err != nil { panic(err) }
Discover_ContinueOnError ==
    /\ pc = "Discovering"
    /\ \E res \in ListPodsResults(RunPods) :
          LET r == getFluentdIPs(res) IN
            /\ ops' = Append(ops, <<"listPods", Deref(config).namespace, Outcome(res)>>)
            /\ log' = log \o r.log
            /\ pc' = "Probing" /\ fluentdIPs' = r.ips /\ UNCHANGED <<err, exitCode>>
    /\ UNCHANGED <<env, config, expiry, certificate, idx, responses,
                   reloadCalled, pods, certItems>>

Discover ==
    /\ pc = "Discovering"
    /\ \E res \in ListPodsResults(RunPods) :
          LET r == getFluentdIPs(res) IN
            /\ ops' = Append(ops, <<"listPods", Deref(config).namespace, Outcome(res)>>)
            /\ log' = log \o r.log
            /\ IF r.err # NoErr
               THEN Panic(r.err) /\ UNCHANGED fluentdIPs
               ELSE pc' = "Probing" /\ fluentdIPs' = r.ips /\ UNCHANGED <<err, exitCode>>
    /\ UNCHANGED <<env, config, expiry, certificate, idx, responses,
                   reloadCalled, pods, certItems>>

\* expiry, err := checkCert(config.serviceURL); if err != nil { panic(err) }
Probe_RetryOnError ==
    /\ pc = "Probing"
    /\ \E res \in ProbeResults :
          LET r == checkCert(res) IN
            /\ ops' = Append(ops, <<"probe", Deref(config).serviceURL, res.kind>>)
            /\ log' = log \o r.log
            /\ IF r.err # NoErr
               THEN IF Len(ops) < 3 THEN UNCHANGED <<pc, err, exitCode, expiry>>
                                    ELSE Panic(r.err) /\ UNCHANGED expiry
               ELSE pc' = "LookingUp" /\ expiry' = r.expiry /\ UNCHANGED <<err, exitCode>>
    /\ UNCHANGED <<env, config, fluentdIPs, certificate, idx, responses,
                   reloadCalled, pods, certItems>>

Probe ==
    /\ pc = "Probing"
    /\ \E res \in ProbeResults :
          LET r == checkCert(res) IN
            /\ ops' = Append(ops, <<"probe", Deref(config).serviceURL, res.kind>>)
            /\ log' = log \o r.log
            /\ IF r.err # NoErr
               THEN Panic(r.err) /\ UNCHANGED expiry
               ELSE pc' = "LookingUp" /\ expiry' = r.expiry /\ UNCHANGED <<err, exitCode>>
    /\ UNCHANGED <<env, config, fluentdIPs, certificate, idx, responses,
                   reloadCalled, pods, certItems>>

\* certificate, err := app.getCRD(); if err != nil { panic(err) }
LookUp ==
    /\ pc = "LookingUp"
    /\ \E res \in ListCertsResults(RunCerts) :
          LET r == getCRD(res, Deref(config).certName) IN
            /\ ops' = Append(ops, <<"listCerts", Deref(config).namespace, Outcome(res)>>)
            /\ log' = log \o r.log
            /\ IF r.err # NoErr
               THEN Panic(r.err) /\ UNCHANGED certificate
               ELSE pc' = "Reconciling" /\ certificate' = r.cert /\ UNCHANGED <<err, exitCode>>
    /\ UNCHANGED <<env, config, fluentdIPs, expiry, idx, responses,
                   reloadCalled, pods, certItems>>

\* t := metav1.NewTime(expiry); if certificate.Status.NotAfter.Equal(&t) {...; return}
\* otherwise main goes on to call reloadFluentdConfig(fluentdIPs...).
Reconcile ==
    /\ pc = "Reconciling"
    /\ LET t == NewTime(expiry) IN
          IF MetaTimeEqual(Deref(certificate).notAfter, AddrOf(t))
          THEN /\ log' = log \o << <<"Certificate will expire on", expiry>>,
                                    <<"Certificate will be renewed on">>,
                                    <<"Certificate is valid">> >>
               /\ pc' = "Done"
               /\ exitCode' = Ptr(0)
               /\ UNCHANGED <<idx, reloadCalled>>
          ELSE /\ log' = log \o << <<"Certificate will expire on", expiry>>,
                                    <<"Certificate is not valid">>,
                                    <<"Certificate should expire on", Deref(certificate).notAfter, expiry>> >>
               /\ pc' = "Reloading"
               /\ idx' = 1
               /\ reloadCalled' = TRUE
               /\ UNCHANGED exitCode
    /\ UNCHANGED <<env, config, fluentdIPs, expiry, certificate, ops, responses,
                   err, pods, certItems>>

\* One pass of the loop of reloadFluentdConfig: the GET to ips[idx].  An
\* error returned from the loop is main's panic(err).
ReloadRequest_KeepGoing ==
    /\ pc = "Reloading"
    /\ idx <= Len(fluentdIPs)
    /\ \E resp \in Responses :
          LET ip == fluentdIPs[idx]
              r == reloadIteration(ip, resp) IN
            /\ ops' = Append(ops, <<"GET", ReloadURL(ip)>>)
            /\ responses' = Append(responses, resp)
            /\ log' = log \o r.log
            /\ idx' = idx + 1 /\ UNCHANGED <<pc, err, exitCode>>
    /\ UNCHANGED <<env, config, fluentdIPs, expiry, certificate, reloadCalled,
                   pods, certItems>>

ReloadRequest ==
    /\ pc = "Reloading"
    /\ idx <= Len(fluentdIPs)
    /\ \E resp \in Responses :
          LET ip == fluentdIPs[idx]
              r == reloadIteration(ip, resp) IN
            /\ ops' = Append(ops, <<"GET", ReloadURL(ip)>>)
            /\ responses' = Append(responses, resp)
            /\ log' = log \o r.log
            /\ IF r.err # NoErr
               THEN Panic(r.err) /\ UNCHANGED idx
               ELSE idx' = idx + 1 /\ UNCHANGED <<pc, err, exitCode>>
    /\ UNCHANGED <<env, config, fluentdIPs, expiry, certificate, reloadCalled,
                   pods, certItems>>

\* The loop is exhausted: reloadFluentdConfig returns nil and main returns.
ReloadReturn ==
    /\ pc = "Reloading"
    /\ idx > Len(fluentdIPs)
    /\ pc' = "Done"
    /\ exitCode' = Ptr(0)
    /\ UNCHANGED <<env, config, fluentdIPs, expiry, certificate, idx, ops, responses,
                   log, err, reloadCalled, pods, certItems>>

Next ==
    \/ InClusterConfig
    \/ NewForConfig
    \/ GetConfig
    \/ Discover
    \/ Probe
    \/ LookUp
    \/ Reconcile
    \/ ReloadRequest
    \/ ReloadReturn

Spec == Init /\ [][Next]_vars

\* Every blocking call returns (the reload GET by its 5 s timeout at the latest).
FairSpec == Spec /\ WF_vars(Next)

\* ------------------------------------- getFluentdIPs on every bounded listing

InitDiscovery ==
    /\ pc = "call getFluentdIPs"
    /\ pods \in {Ptr(res) : res \in ListPodsResults(Pods)}
    /\ env = [FLUENTD_SERVICE_URL |-> Ptr("logging.donchev.is"),
              FLUENTD_CERT_NAME |-> Ptr(<<"a", "b">>),
              FLUENTD_NAMESPACE |-> Ptr("logging")]
    /\ config = getConfig(env).config
    /\ fluentdIPs = <<>>
    /\ expiry = ZeroTime
    /\ certificate = Nil
    /\ idx = 0
    /\ ops = <<>>
    /\ responses = <<>>
    /\ log = <<>>
    /\ exitCode = Nil
    /\ err = NoErr
    /\ reloadCalled = FALSE
    /\ certItems = Nil

CallGetFluentdIPs ==
    /\ pc = "call getFluentdIPs"
    /\ LET r == getFluentdIPs(Deref(pods)) IN
          /\ fluentdIPs' = r.ips
          /\ err' = r.err
          /\ log' = log \o r.log
    /\ ops' = Append(ops, <<"listPods", Deref(config).namespace, Outcome(Deref(pods))>>)
    /\ pc' = "ret getFluentdIPs"
    /\ UNCHANGED <<env, config, expiry, certificate, idx, responses, exitCode,
                   reloadCalled, pods, certItems>>

NextDiscovery == CallGetFluentdIPs

SpecDiscovery == InitDiscovery /\ [][NextDiscovery]_vars

\* -------------------------------------------- getCRD on every bounded listing

InitLookup ==
    /\ pc = "call getCRD"
    /\ certItems \in {Ptr(res) : res \in ListCertsResults(Certs)}
    /\ \E target \in Names :
          /\ env = [FLUENTD_SERVICE_URL |-> Ptr("logging.donchev.is"),
                    FLUENTD_CERT_NAME |-> Ptr(target),
                    FLUENTD_NAMESPACE |-> Ptr("logging")]
    /\ config = getConfig(env).config
    /\ fluentdIPs = <<>>
    /\ expiry = ZeroTime
    /\ certificate = Nil
    /\ idx = 0
    /\ ops = <<>>
    /\ responses = <<>>
    /\ log = <<>>
    /\ exitCode = Nil
    /\ err = NoErr
    /\ reloadCalled = FALSE
    /\ pods = Nil

CallGetCRD ==
    /\ pc = "call getCRD"
    /\ LET r == getCRD(Deref(certItems), Deref(config).certName) IN
          /\ certificate' = r.cert
          /\ err' = r.err
          /\ log' = log \o r.log
    /\ ops' = Append(ops, <<"listCerts", Deref(config).namespace, Outcome(Deref(certItems))>>)
    /\ pc' = "ret getCRD"
    /\ UNCHANGED <<env, config, fluentdIPs, expiry, idx, responses, exitCode,
                   reloadCalled, pods, certItems>>

NextLookup == CallGetCRD

SpecLookup == InitLookup /\ [][NextLookup]_vars

\* ------------------------------------------------------------------ claims

\* Words of the claims, defined apart from the operators that model the code.
HasStsLabel(pod) == StsLabel \in pod.labels
SameIgnoringCase(s, t) == Lower(s) = Lower(t)
Terminal == {"Done", "Fatal"}
Permute(l, p) == [i \in 1..Len(l) |-> l[p[i]]]

\* C4: for every pod listing, getFluentdIPs returns exactly the pod IPs of the
\* pods carrying the statefulset.kubernetes.io/pod-name label, one per such
\* pod and in list order; a pod without the label is left out, and leaving it
\* out is no error.
C4_DiscoveryFilterExact ==
    (pc = "ret getFluentdIPs" /\ ~Deref(pods).err) =>
        LET labelled == SelectSeq(Deref(pods).items, HasStsLabel) IN
          /\ err = NoErr
          /\ Len(fluentdIPs) = Len(labelled)
          /\ \A i \in 1..Len(labelled) : fluentdIPs[i] = labelled[i].podIP

C4_Witness ==
    /\ pc = "ret getFluentdIPs"
    /\ ~Deref(pods).err
    /\ Len(Deref(pods).items) = 2
    /\ ~HasStsLabel(Deref(pods).items[1])
    /\ HasStsLabel(Deref(pods).items[2])
    /\ fluentdIPs = <<Deref(pods).items[2].podIP>>
    /\ err = NoErr

\* C3: for every certificate listing and every target name, getCRD returns the
\* certificate whose name equals the target ignoring case when there is one,
\* and the not-found error when there is none; the answer is the same for every
\* order of the listing, and a certificate whose name differs from the target
\* otherwise than by case is never returned.
C3_LookupCaseInsensitive ==
    (pc = "ret getCRD" /\ ~Deref(certItems).err) =>
        LET items == Deref(certItems).items
            target == Deref(env["FLUENTD_CERT_NAME"])
            matches == {i \in 1..Len(items) : SameIgnoringCase(items[i].name, target)}
        IN
          /\ matches # {} =>
                /\ err = NoErr
                /\ certificate # Nil
                /\ \E i \in matches : Deref(certificate) = items[i]
          /\ matches = {} =>
                /\ certificate = Nil
                /\ err = "failed to find fluentd certificate"
          /\ \A p \in Permutations(1..Len(items)) :
                LET r == getCRD([err |-> FALSE, items |-> Permute(items, p)], target) IN
                  r.cert = certificate /\ r.err = err

C3_Witness ==
    /\ pc = "ret getCRD"
    /\ ~Deref(certItems).err
    /\ Len(Deref(certItems).items) = 2
    /\ Deref(env["FLUENTD_CERT_NAME"]) = <<"a", "b">>
    /\ Deref(certItems).items[1].name = <<"b">>
    /\ Deref(certItems).items[2].name = <<"A", "b">>
    /\ certificate = Ptr(Deref(certItems).items[2])

IsGet(o) == o[1] = "GET"
Gets == SelectSeq(ops, IsGet)
GetHosts == [i \in 1..Len(Gets) |-> Gets[i][2].host]
OpKinds == [i \in 1..Len(ops) |-> ops[i][1]]
Logged(m) == \E i \in 1..Len(log) : log[i][1] = m
Reconciled == certificate # Nil /\ pc # "Reconciling"
RecordedExpiry == Deref(certificate).notAfter
ExpiriesEqual ==
    /\ certificate # Nil
    /\ RecordedExpiry # Nil
    /\ Deref(RecordedExpiry).Time.instant = expiry.instant
StatusFailed(resp) == IF resp.kind = "doErr" THEN TRUE ELSE resp.status >= 400
RequestFailed(resp) ==
    IF resp.kind = "doErr" THEN TRUE ELSE resp.status >= 400 \/ resp.body = ReadErr
SetupErrors == {"unable to load in-cluster configuration", "unable to create the clientset"}
ConfigErrors == {"FLUENTD_SERVICE_URL is not set", "FLUENTD_CERT_NAME is not set",
                 "FLUENTD_NAMESPACE is not set"}
DiscoveryErrors == {"failed to get fluentd pods"}
ProbeErrors == {"Server doesn't support SSL certificate",
                "Hostname doesn't match with certificate"}
LookupErrors == {"failed to get certificates", "failed to find fluentd certificate"}
ReloadErrors == {"failed to send request", "failed to reload fluentd config",
                 "failed to read response body"}

\* C1: once the run has reconciled, reloadFluentdConfig has been called exactly
\* when the probed expiry and the record's notAfter are not the same instant;
\* with equal expiries no GET is ever sent, and none is sent before reconciling.
C1_ReloadIffExpiriesDiffer ==
    /\ Reconciled => (reloadCalled <=> ~ExpiriesEqual)
    /\ (Reconciled /\ ExpiriesEqual) => (Gets = <<>> /\ responses = <<>> /\ pc = "Done")
    /\ ~Reconciled => (~reloadCalled /\ Gets = <<>>)

C1_Witness ==
    /\ pc = "Done"
    /\ ExpiriesEqual
    /\ Len(fluentdIPs) >= 2
    /\ ~reloadCalled
    /\ Logged("Certificate is valid")

\* C2: once reloadFluentdConfig is called, the GETs sent are those to the
\* discovered addresses in discovery order, one per address, up to and
\* including the first request that fails; when the run has ended, either a
\* request failed, it was the last one sent and the run is Fatal, or none
\* failed and every address was sent exactly one GET.
C2_OneGetPerAddressUntilFailure ==
    /\ Len(Gets) = Len(responses)
    /\ Len(responses) <= Len(fluentdIPs)
    /\ GetHosts = SubSeq(fluentdIPs, 1, Len(responses))
    /\ \A i \in 1..Len(Gets) :
          Gets[i][2] = [scheme |-> "http", host |-> fluentdIPs[i], port |-> 24444,
                        path |-> "/api/config.gracefulReload"]
    /\ \A i \in 1..Len(responses) :
          RequestFailed(responses[i]) => (i = Len(responses) /\ pc = "Fatal")
    /\ (reloadCalled /\ pc = "Done") => Len(responses) = Len(fluentdIPs)
    /\ (reloadCalled /\ pc = "Fatal") =>
          (responses # <<>> /\ RequestFailed(responses[Len(responses)]))
    /\ ~reloadCalled => responses = <<>>

C2_Witness ==
    /\ reloadCalled
    /\ pc = "Fatal"
    /\ Len(fluentdIPs) = 2
    /\ fluentdIPs[1] # fluentdIPs[2]
    /\ GetHosts = <<fluentdIPs[1]>>
    /\ responses[1].kind = "resp"
    /\ responses[1].status = 503

\* C5: when any of the three environment values is absent, the run never gets
\* past getConfig: it performs no pod listing, probe, certificate listing or
\* reload request, and once the client is built it ends Fatal with the
\* "... is not set" panic of an absent variable.
C5_MissingConfigIsFatalAtStartup ==
    (\E v \in EnvVars : env[v] = Nil) =>
        /\ ops = <<>>
        /\ responses = <<>>
        /\ ~reloadCalled
        /\ pc \in {"InClusterConfig", "NewForConfig", "getConfig", "Fatal"}
        /\ pc = "Fatal" =>
              /\ exitCode = Ptr(2)
              /\ err \in SetupErrors \cup ConfigErrors
              /\ err = "FLUENTD_SERVICE_URL is not set" => env["FLUENTD_SERVICE_URL"] = Nil
              /\ err = "FLUENTD_CERT_NAME is not set" => env["FLUENTD_CERT_NAME"] = Nil
              /\ err = "FLUENTD_NAMESPACE is not set" => env["FLUENTD_NAMESPACE"] = Nil

C5_Witness ==
    /\ env["FLUENTD_SERVICE_URL"] # Nil
    /\ env["FLUENTD_NAMESPACE"] # Nil
    /\ env["FLUENTD_CERT_NAME"] = Nil
    /\ pc = "Fatal"
    /\ err = "FLUENTD_CERT_NAME is not set"
    /\ ops = <<>>

StageOrder ==
    {<<"InClusterConfig", "NewForConfig">>, <<"NewForConfig", "getConfig">>,
     <<"getConfig", "Discovering">>, <<"Discovering", "Probing">>,
     <<"Probing", "LookingUp">>, <<"LookingUp", "Reconciling">>,
     <<"Reconciling", "Reloading">>, <<"Reconciling", "Done">>,
     <<"Reloading", "Done">>} \cup
    {<<st, "Fatal">> : st \in {"InClusterConfig", "NewForConfig", "getConfig",
                               "Discovering", "Probing", "LookingUp", "Reloading"}}
StageOfOp(kind) ==
    CASE kind = "listPods" -> "Discovering"
      [] kind = "probe" -> "Probing"
      [] kind = "listCerts" -> "LookingUp"
      [] kind = "GET" -> "Reloading"
\* C6: the stages follow one another in the order Discovering, Probing,
\* LookingUp, Reconciling, then Reloading or Done, never going back; the pod
\* listing, the probe and the certificate listing each happen at most once, in
\* that order, each in its own stage.
C6_LinearRun ==
    [][/\ pc' # pc => <<pc, pc'>> \in StageOrder
       /\ ops' # ops =>
             /\ Len(ops') = Len(ops) + 1
             /\ SubSeq(ops', 1, Len(ops)) = ops
             /\ StageOfOp(ops'[Len(ops')][1]) = pc
       /\ \A k \in {"listPods", "probe", "listCerts"} :
             Cardinality({i \in 1..Len(ops') : ops'[i][1] = k}) <= 1
       /\ \A i, j \in 1..Len(ops') :
             (ops'[i][1] = "probe" /\ ops'[j][1] = "listPods") => j < i
       /\ \A i, j \in 1..Len(ops') :
             (ops'[i][1] = "listCerts" /\ ops'[j][1] = "probe") => j < i
       /\ (\E i \in 1..Len(ops') : ops'[i][1] = "listCerts") =>
             (\E j \in 1..Len(ops') : ops'[j][1] = "probe")
      ]_vars

C6_Witness ==
    /\ pc = "Done"
    /\ reloadCalled
    /\ Len(ops) = 5
    /\ OpKinds = <<"listPods", "probe", "listCerts", "GET", "GET">>

OpFailed(o) == IF IsGet(o) THEN FALSE ELSE o[3] # "ok"
FatalOps ==
    /\ err \in SetupErrors \cup ConfigErrors => ops = <<>>
    /\ err \in DiscoveryErrors => OpKinds = <<"listPods">>
    /\ err \in ProbeErrors => OpKinds = <<"listPods", "probe">>
    /\ err \in LookupErrors => OpKinds = <<"listPods", "probe", "listCerts">>
    /\ err \in ReloadErrors =>
          /\ SubSeq(OpKinds, 1, 3) = <<"listPods", "probe", "listCerts">>
          /\ Len(ops) = 3 + Len(responses)
          /\ responses # <<>>
          /\ RequestFailed(responses[Len(responses)])
    /\ err \notin ReloadErrors => (responses = <<>> /\ Gets = <<>> /\ ~reloadCalled)
\* C7: a failure in any stage ends the run Fatal at once: a failed external
\* operation is the last operation of the run, a Fatal run has performed
\* exactly the operations up to the stage that failed, nothing happens after
\* Fatal, and no GET is sent in a run whose discovery, probe or lookup failed.
C7_FirstFailureIsFatal ==
    /\ [](/\ \A i \in 1..Len(ops) :
               OpFailed(ops[i]) => (i = Len(ops) /\ pc = "Fatal" /\ Gets = <<>>)
          /\ \A i \in 1..Len(responses) :
               RequestFailed(responses[i]) => (i = Len(responses) /\ pc = "Fatal")
          /\ (pc \in {"Reconciling", "Reloading", "Done"}) => certificate # Nil
          /\ pc = "Fatal" <=> err # NoErr
          /\ pc = "Fatal" => (exitCode = Ptr(2) /\ FatalOps))
    /\ [][pc = "Fatal" => vars' = vars]_vars

C7_Witness ==
    /\ pc = "Fatal"
    /\ err = "Hostname doesn't match with certificate"
    /\ Len(ops) = 2
    /\ ops[2][3] = "hostnameErr"
    /\ fluentdIPs # <<>>

AllReloaded ==
    /\ reloadCalled
    /\ Len(responses) = Len(fluentdIPs)
    /\ \A i \in 1..Len(responses) : ~RequestFailed(responses[i])
\* C8: every run ends, Done or Fatal; it exits zero exactly when the record's
\* expiry equalled the probed one or every discovered address was sent a GET
\* that succeeded, and non-zero exactly when a stage raised an error.
C8_TerminatesWithExitStatus ==
    /\ <>(pc \in Terminal)
    /\ [](/\ exitCode # Nil <=> pc \in Terminal
          /\ exitCode = Ptr(0) <=>
                (pc \in Terminal /\ Reconciled /\ (ExpiriesEqual \/ AllReloaded))
          /\ exitCode = Ptr(2) <=> (pc \in Terminal /\ err # NoErr)
          /\ exitCode \in {Nil, Ptr(0), Ptr(2)}
          /\ err \in {NoErr} \cup SetupErrors \cup ConfigErrors \cup DiscoveryErrors
                      \cup ProbeErrors \cup LookupErrors \cup ReloadErrors)

C8_Witness ==
    /\ pc = "Done"
    /\ exitCode = Ptr(0)
    /\ AllReloaded
    /\ Len(responses) >= 2
    /\ ~ExpiriesEqual

\* C9 as stated: a reload request fails exactly on a transport error or a
\* status >= 400, so a response with a status below 400 never ends the run.
C9_BodyNeverAborts ==
    \A i \in 1..Len(responses) :
        (i = Len(responses) /\ pc = "Fatal") <=> StatusFailed(responses[i])

IsResponseLine(l) == l[1] = "Response"
Succeeded(resp) == ~RequestFailed(resp)
\* C9 as amended: a reload request fails exactly on a transport error, a
\* status >= 400, or an error while reading the body of a response below 400;
\* a body that was read is logged as it is and has no other effect, whatever
\* its content.
C9_FailsOnTransportStatusOrBodyRead ==
    /\ \A i \in 1..Len(responses) :
          (i = Len(responses) /\ pc = "Fatal") <=> RequestFailed(responses[i])
    /\ LET lines == SelectSeq(log, IsResponseLine)
           good == SelectSeq(responses, Succeeded) IN
          /\ Len(lines) = Len(good)
          /\ \A i \in 1..Len(good) : lines[i][2] = good[i].body

C9_Witness ==
    /\ pc = "Fatal"
    /\ err = "failed to read response body"
    /\ Len(responses) = 2
    /\ responses[1] = [kind |-> "resp", status |-> 200, body |-> "error"]
    /\ responses[2] = [kind |-> "resp", status |-> 200, body |-> ReadErr]

\* C10: when the matched record has no notAfter, the run, whatever the probed
\* expiry, logs the certificate as not valid and never as valid, calls the
\* reload, which reaches every discovered address unless a request fails, and
\* fails on nothing but a reload request.
C10_NilNotAfterReloads ==
    (Reconciled /\ RecordedExpiry = Nil) =>
        /\ reloadCalled
        /\ Logged("Certificate is not valid")
        /\ ~Logged("Certificate is valid")
        /\ pc \in {"Reloading", "Done", "Fatal"}
        /\ pc = "Fatal" => (err \in ReloadErrors /\ RequestFailed(responses[Len(responses)]))
        /\ pc = "Done" => (GetHosts = fluentdIPs /\ exitCode = Ptr(0))

C10_Witness ==
    /\ pc = "Done"
    /\ RecordedExpiry = Nil
    /\ Len(fluentdIPs) >= 2
    /\ GetHosts = fluentdIPs

====
